---- MODULE Spec2Model ----
(***************************************************************************)
(* RedditUserScraper.get_user_comments_on_posts (src/scraper.py): the      *)
(* reconstruction of a user's reply chains from the flat stream of the     *)
(* user's comments.  The method is modelled step by step: the collection   *)
(* loop, the membership recursion is_in_user_chain, the depth walk, the    *)
(* grouping, the final sort and the except handler.                        *)
(***************************************************************************)
EXTENDS Integers, Sequences, FiniteSets, TLC

\* ------------------------------------------------------------------------
\* Bounds of the model
\* ------------------------------------------------------------------------

\* The comment stream holds at most MaxComments comments.
MaxComments == 3

\* created_utc ranges over 1..MaxTime.
MaxTime == 2

\* The submissions a comment can be on; post_ids is any subset of them.
Posts == {"p1", "p2"}

\* Comment ids are opaque strings; the k-th comment of the stream has id
\* CommentIds[k].
CommentIds == <<"c1", "c2", "c3", "c4", "c5">>

Ids(n) == {CommentIds[k] : k \in 1..n}

\* The id of a comment that is not in the stream (another user's comment).
Foreign == "cx"

\* ------------------------------------------------------------------------
\* The input: comment.id, comment.parent_id, comment.submission.id,
\* comment.created_utc of each comment user.comments.new() yields
\* ------------------------------------------------------------------------

\* parent_id is "t3_<submission id>" or "t1_<comment id>": the prefix and the
\* rest of the string (parent_id[3:]).
T3 == "t3_"
T1 == "t1_"

StartsWith(parent_id, prefix) == parent_id.prefix = prefix

StripPrefix(parent_id) == parent_id.rest

\* What a comment replies to: the submission it is on, a comment of the
\* stream (itself included, so that parent graphs may be cyclic), or a comment
\* outside the stream.
ReplyTargets(n) == {"submission"} \cup Ids(n) \cup {Foreign}

ParentId(target, post_id) ==
    IF target = "submission"
    THEN [prefix |-> T3, rest |-> post_id]
    ELSE [prefix |-> T1, rest |-> target]

\* The k-th of n comments: user.comments.new() yields each comment once
\* (ids are unique).
Comment(n, k, target, post_id, created_utc) ==
    [id |-> CommentIds[k],
     parent_id |-> ParentId(target, post_id),
     post_id |-> post_id,
     created_utc |-> created_utc]

\* A stream of n comments in the order of the listing "new", newest first:
\* f gives each comment what it replies to and the submission it is on.  Any
\* parent graph (dangling references, cycles and self references included)
\* and any assignment of the comments to the submissions is a choice of f.
ChainChoices(n) == [1..n -> ReplyTargets(n) \X Posts]

ChainStream(n, f) ==
    [k \in 1..n |-> Comment(n, k, f[k][1], f[k][2], n - k + 1)]

\* A stream of n comments with any created_utc in 1..MaxTime (equal
\* timestamps and any order included); each comment is top-level, a reply to
\* the first comment of the stream or a reply to a comment outside it.
OrderChoices(n) ==
    [1..n -> {"submission", CommentIds[1], Foreign} \X Posts \X (1..MaxTime)]

OrderStream(n, f) ==
    [k \in 1..n |-> Comment(n, k, f[k][1], f[k][2], f[k][3])]

\* ------------------------------------------------------------------------
\* Dictionaries (insertion ordered) and lists
\* ------------------------------------------------------------------------

EmptyDict == [p \in {} |-> <<>>]

\* all_user_comments is the sequence of its values in insertion order.
Keys(d) == {d[k].id : k \in 1..Len(d)}

Get(d, id) == d[CHOOSE k \in 1..Len(d) : d[k].id = id]

\* d[id] = data: a new key is appended, an old key keeps its place.
DictSet(d, id, data) ==
    IF id \in Keys(d)
    THEN [k \in 1..Len(d) |-> IF d[k].id = id THEN data ELSE d[k]]
    ELSE Append(d, data)

\* if post_id not in d: d[post_id] = [] ; d[post_id].append(data)
DictAppend(d, post_id, data) ==
    [p \in DOMAIN d \cup {post_id} |->
        IF p = post_id
        THEN Append(IF post_id \in DOMAIN d THEN d[post_id] ELSE <<>>, data)
        ELSE d[p]]

\* list.sort(key=created_utc) is stable: an element goes after every element
\* whose key is not greater.
RECURSIVE InsertByCreated(_, _)
InsertByCreated(sorted, x) ==
    IF sorted = <<>> \/ sorted[Len(sorted)].created_utc <= x.created_utc
    THEN Append(sorted, x)
    ELSE Append(InsertByCreated(SubSeq(sorted, 1, Len(sorted) - 1), x),
                sorted[Len(sorted)])

RECURSIVE SortFrom(_, _, _)
SortFrom(list, k, sorted) ==
    IF k > Len(list) THEN sorted
    ELSE SortFrom(list, k + 1, InsertByCreated(sorted, list[k]))

SortByCreated(list) == SortFrom(list, 1, <<>>)

\* ------------------------------------------------------------------------
\* State
\* ------------------------------------------------------------------------

VARIABLES
    stream,                 \* what user.comments.new(limit=None) yields
    post_ids,               \* the target posts
    pc,                     \* where the call is
    i,                      \* the next comment of the stream (first loop)
    all_user_comments,      \* comment_id -> comment_data, insertion ordered
    top_level_comment_ids,
    j,                      \* the next item of all_user_comments (second loop)
    comment_id,             \* the argument of the running is_in_user_chain call
    visited,                \* its visited set
    verdict,                \* what is_in_user_chain returned
    depth,                  \* the depth walk's counter
    current_parent,         \* the depth walk's cursor
    comments_by_post,
    result,                 \* what the call returned
    failed,                 \* the except handler ran
    call,                   \* "first", or which second call this is
    prev_result             \* what the first call returned

vars == <<stream, post_ids, pc, i, all_user_comments, top_level_comment_ids, j,
          comment_id, visited, verdict, depth, current_parent,
          comments_by_post, result, failed, call, prev_result>>

input == <<stream, post_ids>>

locals == <<i, all_user_comments, top_level_comment_ids, j, comment_id,
            visited, verdict, depth, current_parent, comments_by_post>>

NoParent == [prefix |-> "", rest |-> ""]

\* The locals at the entry of the method.
Entry ==
    /\ pc = "collect"
    /\ i = 1
    /\ all_user_comments = <<>>
    /\ top_level_comment_ids = {}
    /\ j = 1
    /\ comment_id = ""
    /\ visited = {}
    /\ verdict = FALSE
    /\ depth = 0
    /\ current_parent = NoParent
    /\ comments_by_post = EmptyDict

FirstCall ==
    /\ Entry
    /\ result = EmptyDict
    /\ failed = FALSE
    /\ call = "first"
    /\ prev_result = EmptyDict

Init ==
    /\ \E n \in 0..MaxComments : \E f \in ChainChoices(n) :
            stream = ChainStream(n, f)
    /\ post_ids \in SUBSET Posts
    /\ FirstCall

InitOrder ==
    /\ \E n \in 0..MaxComments : \E f \in OrderChoices(n) :
            stream = OrderStream(n, f)
    /\ post_ids = Posts
    /\ FirstCall

\* ------------------------------------------------------------------------
\* First pass: collect the user's comments on the target posts
\* ------------------------------------------------------------------------

\* The test left out: every comment of the stream is collected.
OnTargetPost_Always(post_id) == TRUE

\* if post_id in post_ids
OnTargetPost(post_id) == post_id \in post_ids

\* The comment_data dictionary of a comment (the payload fields body, score,
\* permalink, is_submitter pass through and are left out).
CommentData(comment) ==
    [id |-> comment.id,
     created_utc |-> comment.created_utc,
     parent_id |-> comment.parent_id,
     post_id |-> comment.post_id,
     depth |-> 0]

\* if comment.parent_id.startswith('t3_')
IsTopLevel(comment) == StartsWith(comment.parent_id, T3)

\* One iteration of "for comment in user.comments.new(limit=None)".
Collect ==
    /\ pc = "collect"
    /\ i <= Len(stream)
    /\ LET comment == stream[i] IN
        IF OnTargetPost(comment.post_id)
        THEN /\ all_user_comments' =
                    DictSet(all_user_comments, comment.id, CommentData(comment))
             /\ top_level_comment_ids' =
                    IF IsTopLevel(comment)
                    THEN top_level_comment_ids \cup {comment.id}
                    ELSE top_level_comment_ids
        ELSE UNCHANGED <<all_user_comments, top_level_comment_ids>>
    /\ i' = i + 1
    /\ UNCHANGED <<input, pc, j, comment_id, visited, verdict, depth,
                   current_parent, comments_by_post, result, failed, call,
                   prev_result>>

\* The stream is exhausted: the second loop starts.
CollectEnd ==
    /\ pc = "collect"
    /\ i > Len(stream)
    /\ pc' = "filter"
    /\ j' = 1
    /\ UNCHANGED <<input, i, all_user_comments, top_level_comment_ids,
                   comment_id, visited, verdict, depth, current_parent,
                   comments_by_post, result, failed, call, prev_result>>

\* except Exception: return {}
ExceptResult == EmptyDict

\* The stream raises (the data source fails): the handler returns {}.
FetchError ==
    /\ pc = "collect"
    /\ pc' = "done"
    /\ result' = ExceptResult
    /\ failed' = TRUE
    /\ UNCHANGED <<input, locals, call, prev_result>>

\* ------------------------------------------------------------------------
\* Second pass: is_in_user_chain, the depth walk, the grouping
\* ------------------------------------------------------------------------

\* A comment found in visited taken for a member.
VisitedAgain_True == "True"

\* What is_in_user_chain does when it finds comment_id in visited.
VisitedAgain == "False"

\* The prefix not stripped (parent_id for parent_id[3:]): "t1_<id>" is no key
\* of all_user_comments, so no parent is ever found.
is_in_user_chain_NoStrip(cid, vis) ==
    IF cid \in vis
    THEN [ret |-> VisitedAgain, arg |-> cid, visited |-> vis]
    ELSE LET vis1 == vis \cup {cid} IN
         IF cid \in top_level_comment_ids
         THEN [ret |-> "True", arg |-> cid, visited |-> vis1]
         ELSE [ret |-> "False", arg |-> cid, visited |-> vis1]

\* The recursive call left out: "return parent_comment_id in
\* all_user_comments".
is_in_user_chain_NoRecursion(cid, vis) ==
    IF cid \in vis
    THEN [ret |-> VisitedAgain, arg |-> cid, visited |-> vis]
    ELSE LET vis1 == vis \cup {cid} IN
         IF cid \in top_level_comment_ids
         THEN [ret |-> "True", arg |-> cid, visited |-> vis1]
         ELSE IF cid \notin Keys(all_user_comments)
         THEN [ret |-> "False", arg |-> cid, visited |-> vis1]
         ELSE LET parent_id == Get(all_user_comments, cid).parent_id IN
              IF StartsWith(parent_id, T3)
              THEN [ret |-> "False", arg |-> cid, visited |-> vis1]
              ELSE IF StripPrefix(parent_id) \in Keys(all_user_comments)
                   THEN [ret |-> "True", arg |-> cid, visited |-> vis1]
                   ELSE [ret |-> "False", arg |-> cid, visited |-> vis1]

\* The visited test left out.
is_in_user_chain_NoGuard(cid, vis) ==
    LET vis1 == vis \cup {cid} IN
    IF cid \in top_level_comment_ids
    THEN [ret |-> "True", arg |-> cid, visited |-> vis1]
    ELSE IF cid \notin Keys(all_user_comments)
    THEN [ret |-> "False", arg |-> cid, visited |-> vis1]
    ELSE LET parent_id == Get(all_user_comments, cid).parent_id IN
         IF StartsWith(parent_id, T3)
         THEN [ret |-> "False", arg |-> cid, visited |-> vis1]
         ELSE IF StripPrefix(parent_id) \in Keys(all_user_comments)
              THEN [ret |-> "recurse", arg |-> StripPrefix(parent_id),
                    visited |-> vis1]
              ELSE [ret |-> "False", arg |-> cid, visited |-> vis1]

\* One call of is_in_user_chain(cid, vis): the value it returns ("True",
\* "False") or the call it returns the value of ("recurse", on arg), and the
\* visited set it leaves.
is_in_user_chain(cid, vis) ==
    IF cid \in vis
    THEN [ret |-> VisitedAgain, arg |-> cid, visited |-> vis]
    ELSE LET vis1 == vis \cup {cid} IN
         IF cid \in top_level_comment_ids
         THEN [ret |-> "True", arg |-> cid, visited |-> vis1]
         ELSE IF cid \notin Keys(all_user_comments)
         THEN [ret |-> "False", arg |-> cid, visited |-> vis1]
         ELSE LET parent_id == Get(all_user_comments, cid).parent_id IN
              IF StartsWith(parent_id, T3)
              THEN [ret |-> "False", arg |-> cid, visited |-> vis1]
              ELSE LET parent_comment_id ==
                           IF StartsWith(parent_id, T1)
                           THEN StripPrefix(parent_id)
                           ELSE parent_id
                   IN  IF parent_comment_id \in Keys(all_user_comments)
                       THEN [ret |-> "recurse", arg |-> parent_comment_id,
                             visited |-> vis1]
                       ELSE [ret |-> "False", arg |-> cid, visited |-> vis1]

\* The assignment left out: the depth stays the 0 of the first pass.
SetDepth_Dropped(comment_data, d) == comment_data

\* comment_data['depth'] = depth
SetDepth(comment_data, d) == [comment_data EXCEPT !.depth = d]

\* comments_by_post[post_id].append(comment_data)
Retain(comment_data) ==
    DictAppend(comments_by_post, comment_data.post_id, comment_data)

\* The head of "for comment_id, comment_data in all_user_comments.items()":
\* a top-level comment is retained at depth 0, any other is tested.
Filter ==
    /\ pc = "filter"
    /\ j <= Len(all_user_comments)
    /\ LET data == all_user_comments[j] IN
        IF data.id \in top_level_comment_ids
        THEN /\ comments_by_post' = Retain(data)
             /\ j' = j + 1
             /\ UNCHANGED <<pc, comment_id, visited>>
        ELSE /\ pc' = "chain"
             /\ comment_id' = data.id
             /\ visited' = {}
             /\ UNCHANGED <<comments_by_post, j>>
    /\ UNCHANGED <<input, i, all_user_comments, top_level_comment_ids,
                   verdict, depth, current_parent, result, failed, call,
                   prev_result>>

\* One call of is_in_user_chain: it returns, or calls itself on the parent.
ChainCall ==
    /\ pc = "chain"
    /\ LET r == is_in_user_chain(comment_id, visited) IN
        /\ visited' = r.visited
        /\ IF r.ret = "recurse"
           THEN /\ comment_id' = r.arg
                /\ UNCHANGED <<pc, verdict>>
           ELSE /\ verdict' = (r.ret = "True")
                /\ pc' = "select"
                /\ UNCHANGED comment_id
    /\ UNCHANGED <<input, i, all_user_comments, top_level_comment_ids, j,
                   depth, current_parent, comments_by_post, result, failed,
                   call, prev_result>>

\* depth = 0 at the start of the depth walk
DepthStart == 0

\* "if ... or is_in_user_chain(comment_id)" for a comment that is not
\* top-level: a member starts its depth walk, any other comment is dropped.
Select ==
    /\ pc = "select"
    /\ IF verdict
       THEN /\ depth' = DepthStart
            /\ current_parent' = all_user_comments[j].parent_id
            /\ pc' = "depth"
            /\ UNCHANGED j
       ELSE /\ j' = j + 1
            /\ pc' = "filter"
            /\ UNCHANGED <<depth, current_parent>>
    /\ UNCHANGED <<input, i, all_user_comments, top_level_comment_ids,
                   comment_id, visited, verdict, comments_by_post, result,
                   failed, call, prev_result>>

\* The walk looks the parent up among the top-level comments only.
WalkContinues_TopLevelOnly(parent_comment_id) ==
    parent_comment_id \in top_level_comment_ids

\* if parent_comment_id in all_user_comments (else: break)
WalkContinues(parent_comment_id) ==
    parent_comment_id \in Keys(all_user_comments)

\* One test of "while current_parent.startswith('t1_')" and the iteration
\* that follows it.
DepthWalk ==
    /\ pc = "depth"
    /\ IF StartsWith(current_parent, T1)
       THEN LET parent_comment_id == StripPrefix(current_parent) IN
            /\ depth' = depth + 1
            /\ IF WalkContinues(parent_comment_id)
               THEN /\ current_parent' =
                        Get(all_user_comments, parent_comment_id).parent_id
                    /\ UNCHANGED pc
               ELSE /\ pc' = "emit"
                    /\ UNCHANGED current_parent
       ELSE /\ pc' = "emit"
            /\ UNCHANGED <<depth, current_parent>>
    /\ UNCHANGED <<input, i, all_user_comments, top_level_comment_ids, j,
                   comment_id, visited, verdict, comments_by_post, result,
                   failed, call, prev_result>>

\* The depth is stored in the comment_data (the dictionary all_user_comments
\* holds) and the comment is appended to its post's list.
Emit ==
    /\ pc = "emit"
    /\ LET data == SetDepth(all_user_comments[j], depth) IN
        /\ all_user_comments' = [all_user_comments EXCEPT ![j] = data]
        /\ comments_by_post' = Retain(data)
    /\ j' = j + 1
    /\ pc' = "filter"
    /\ UNCHANGED <<input, i, top_level_comment_ids, comment_id, visited,
                   verdict, depth, current_parent, result, failed, call,
                   prev_result>>

\* A sort that is not stable: an element goes before the elements of equal
\* key.
RECURSIVE InsertBeforeEqual(_, _)
InsertBeforeEqual(sorted, x) ==
    IF sorted = <<>> \/ sorted[Len(sorted)].created_utc < x.created_utc
    THEN Append(sorted, x)
    ELSE Append(InsertBeforeEqual(SubSeq(sorted, 1, Len(sorted) - 1), x),
                sorted[Len(sorted)])

RECURSIVE SortTiesReversedFrom(_, _, _)
SortTiesReversedFrom(list, k, sorted) ==
    IF k > Len(list) THEN sorted
    ELSE SortTiesReversedFrom(list, k + 1, InsertBeforeEqual(sorted, list[k]))

SortList_TiesReversed(list) == SortTiesReversedFrom(list, 1, <<>>)

\* comments_by_post[post_id].sort(key=lambda x: x['created_utc'])
SortList(list) == SortByCreated(list)

\* The second loop is over: each list is sorted and the mapping returned.
SortReturn ==
    /\ pc = "filter"
    /\ j > Len(all_user_comments)
    /\ comments_by_post' =
          [p \in DOMAIN comments_by_post |-> SortList(comments_by_post[p])]
    /\ result' = comments_by_post'
    /\ pc' = "done"
    /\ UNCHANGED <<input, i, all_user_comments, top_level_comment_ids, j,
                   comment_id, visited, verdict, depth, current_parent,
                   failed, call, prev_result>>

Next ==
    \/ Collect
    \/ CollectEnd
    \/ FetchError
    \/ Filter
    \/ ChainCall
    \/ Select
    \/ DepthWalk
    \/ Emit
    \/ SortReturn

Spec == Init /\ [][Next]_vars

\* The same call on streams with arbitrary timestamps.
SpecOrder == InitOrder /\ [][Next]_vars

\* The call is sequential code: a step that can be taken is taken.
FairSpec == Init /\ [][Next]_vars /\ WF_vars(Next)

\* ------------------------------------------------------------------------
\* A second call of the method
\* ------------------------------------------------------------------------

\* The mapping kept from the call before (a mapping held by the scraper
\* object and not by the call).
FreshCommentsByPost_Kept == comments_by_post

\* comments_by_post = {} at the entry of a call
FreshCommentsByPost == EmptyDict

\* The locals of a new call (lines 103-107; visited is None in each outer
\* call of is_in_user_chain).
NewCall ==
    /\ pc' = "collect"
    /\ i' = 1
    /\ all_user_comments' = <<>>
    /\ top_level_comment_ids' = {}
    /\ j' = 1
    /\ comment_id' = ""
    /\ visited' = {}
    /\ verdict' = FALSE
    /\ depth' = 0
    /\ current_parent' = NoParent
    /\ comments_by_post' = FreshCommentsByPost
    /\ prev_result' = result
    /\ UNCHANGED <<result, failed>>

\* The method is called again with the same username and post_ids, and the
\* data source yields the same comments.
CallAgain ==
    /\ pc = "done"
    /\ call = "first"
    /\ ~failed
    /\ NewCall
    /\ call' = "again"
    /\ UNCHANGED input

RECURSIVE OnPosts(_, _)
OnPosts(s, keep) ==
    IF s = <<>> THEN <<>>
    ELSE IF s[1].post_id \in keep
         THEN <<s[1]>> \o OnPosts(Tail(s), keep)
         ELSE OnPosts(Tail(s), keep)

\* The method is called again with the same post_ids, and the data source
\* yields the same comments without those on other posts.
CallOnTargets ==
    /\ pc = "done"
    /\ call = "first"
    /\ ~failed
    /\ NewCall
    /\ call' = "targets"
    /\ stream' = OnPosts(stream, post_ids)
    /\ stream' # stream
    /\ UNCHANGED post_ids

NextTwice ==
    \/ Next
    \/ CallAgain
    \/ CallOnTargets

SpecTwice == Init /\ [][NextTwice]_vars

\* ------------------------------------------------------------------------
\* The input and the output as the claims speak of them
\* ------------------------------------------------------------------------

InputIds == {stream[k].id : k \in 1..Len(stream)}

StreamIndex(id) == CHOOSE k \in 1..Len(stream) : stream[k].id = id

Rec(id) == stream[StreamIndex(id)]

\* The records on a target post: the collected set.
Collected == {id \in InputIds : Rec(id).post_id \in post_ids}

IsSubmissionRef(id) == Rec(id).parent_id.prefix = T3

ParentOf(id) == Rec(id).parent_id.rest

\* The number of comment-to-comment hops from id up to a top-level record,
\* every record on the way in the collected set; -1 when there is no such
\* path of at most fuel hops.
RECURSIVE HopsToRoot(_, _)
HopsToRoot(id, fuel) ==
    IF id \notin Collected THEN -1
    ELSE IF IsSubmissionRef(id) THEN 0
    ELSE IF fuel = 0 THEN -1
    ELSE LET h == HopsToRoot(ParentOf(id), fuel - 1) IN
         IF h < 0 THEN -1 ELSE h + 1

ReachesRoot(id) == HopsToRoot(id, Len(stream)) >= 0

\* id's parent references never leave the collected set and never reach a
\* top-level record: id is on a cycle or its ancestors lead into one.
RECURSIVE StaysBelow(_, _)
StaysBelow(id, fuel) ==
    /\ id \in Collected
    /\ ~IsSubmissionRef(id)
    /\ (fuel = 0 \/ StaysBelow(ParentOf(id), fuel - 1))

LeadsToCycle(id) == StaysBelow(id, Len(stream))

\* id, or one of its ancestors in the stream, is on a post that is no target.
RECURSIVE OffTarget(_, _)
OffTarget(id, fuel) ==
    /\ id \in InputIds
    /\ \/ id \notin Collected
       \/ /\ ~IsSubmissionRef(id)
          /\ fuel > 0
          /\ OffTarget(ParentOf(id), fuel - 1)

\* The comments of a returned mapping.
Output(m) == UNION {{m[p][k] : k \in 1..Len(m[p])} : p \in DOMAIN m}

\* The places of comment id in a returned mapping.
Places(m, id) ==
    {<<p, k>> \in UNION {{p} \X (1..Len(m[p])) : p \in DOMAIN m} :
        m[p][k].id = id}

Appears(id) == Places(result, id) # {}

\* The call returned from its try block.
Returned == pc = "done" /\ ~failed

\* ------------------------------------------------------------------------
\* Claims
\* ------------------------------------------------------------------------

\* C1: when the call returns, a record on a target post is in the output,
\* once and in the list of its own post, if and only if its comment-to-comment
\* parent references, each resolving to a collected record, reach a top-level
\* record; a top-level record on a target post is always in the output.
C1_MembershipIffReachesRoot ==
    Returned =>
        \A id \in Collected :
            /\ Appears(id) <=> ReachesRoot(id)
            /\ IsSubmissionRef(id) => Appears(id)
            /\ Appears(id) =>
                  /\ Cardinality(Places(result, id)) = 1
                  /\ \A pl \in Places(result, id) : pl[1] = Rec(id).post_id

\* A returned output that holds a reply and leaves out a record on a target
\* post.
C1_Witness ==
    /\ Returned
    /\ \E id \in Collected : Appears(id) /\ ~IsSubmissionRef(id)
    /\ \E id \in Collected : ~Appears(id)

\* C2: every comment of the output has depth >= 0, and depth 0 if and only
\* if its parent_id is a submission reference.
C2_DepthZeroIffTopLevel ==
    pc = "done" =>
        \A c \in Output(result) :
            /\ c.depth >= 0
            /\ c.depth = 0 <=> StartsWith(c.parent_id, T3)

\* A returned output with a top-level comment and a reply.
C2_Witness ==
    /\ Returned
    /\ \E c \in Output(result) : StartsWith(c.parent_id, T3)
    /\ \E c \in Output(result) : StartsWith(c.parent_id, T1) /\ c.depth > 0

\* C3: the depth of every retained comment that is not top-level is the
\* number of comment-to-comment hops from it up to its top-level root.
C3_DepthIsHopCount ==
    Returned =>
        \A c \in Output(result) :
            ~IsSubmissionRef(c.id) =>
                /\ c.depth = HopsToRoot(c.id, Len(stream))
                /\ c.depth >= 1

\* A returned output with a chain as long as the whole stream: a direct reply
\* at depth 1 and the last reply at depth MaxComments - 1.
C3_Witness ==
    /\ Returned
    /\ \E c \in Output(result) : c.depth = 1
    /\ \E c \in Output(result) : c.depth = MaxComments - 1 /\ c.depth >= 2

\* C4: a comment on a parent-reference cycle (a self reference and a two-cycle
\* included), or whose ancestors lead into one, gets the verdict "not a
\* member" and is not in the output, while the chains elsewhere in the same
\* input are in the output.
C4_CyclesExcluded ==
    /\ (pc = "select" /\ LeadsToCycle(all_user_comments[j].id))
          => verdict = FALSE
    /\ Returned =>
          \A id \in Collected :
              /\ LeadsToCycle(id) => ~Appears(id)
              /\ ((\E other \in Collected : LeadsToCycle(other))
                    /\ ReachesRoot(id)) => Appears(id)

\* A returned output of a stream that holds a two-cycle, both comments left
\* out, and a retained chain elsewhere.
C4_Witness ==
    /\ Returned
    /\ \E a, b \in Collected :
          /\ a # b
          /\ ParentOf(a) = b
          /\ ParentOf(b) = a
          /\ ~IsSubmissionRef(a)
          /\ ~IsSubmissionRef(b)
          /\ ~Appears(a)
          /\ ~Appears(b)
    /\ \E id \in Collected : Appears(id)

\* C5: the call is total: whatever the stream holds (dangling parent
\* references, cycles, self references, nothing at all) and whatever the
\* targets are, the membership recursion and the depth walk end and the call
\* returns a mapping from target posts to lists; it never stays in a loop.
C5_CallReturnsMapping ==
    <>[](/\ pc = "done"
         /\ DOMAIN result \subseteq post_ids
         /\ \A p \in DOMAIN result : result[p] \in Seq(Output(result)))

\* The call returned on a stream with a self reference and a dangling parent
\* reference.
C5_Witness ==
    /\ Returned
    /\ \E id \in Collected : ~IsSubmissionRef(id) /\ ParentOf(id) = id
    /\ \E id \in Collected : ~IsSubmissionRef(id) /\ ParentOf(id) = Foreign

\* C6: the output holds no comment whose post_id is not in post_ids and no
\* key that is not in post_ids; with post_ids empty it is the empty mapping.
C6_OnlyTargetPosts ==
    pc = "done" =>
        /\ DOMAIN result \subseteq post_ids
        /\ \A p \in DOMAIN result : \A k \in 1..Len(result[p]) :
              /\ result[p][k].post_id = p
              /\ result[p][k].post_id \in post_ids
        /\ post_ids = {} => result = EmptyDict

\* A returned, non-empty output of a stream that holds a comment on a post
\* that is no target.
C6_Witness ==
    /\ Returned
    /\ InputIds \ Collected # {}
    /\ result # EmptyDict

\* C7: the records on posts that are no targets are ignored as if absent: the
\* call on the stream without them returns what the call on the whole stream
\* returned, and no comment whose parent or further ancestor is on such a post
\* is in the output.
C7_NonTargetsAsIfAbsent ==
    /\ (Returned /\ call = "targets") => result = prev_result
    /\ Returned => \A id \in InputIds : OffTarget(id, Len(stream)) => ~Appears(id)

\* The second call returned a non-empty output on a stream from which the
\* parent of one of its comments was removed.
C7_Witness ==
    /\ Returned
    /\ call = "targets"
    /\ result # EmptyDict
    /\ \E id \in InputIds :
          /\ ~IsSubmissionRef(id)
          /\ ParentOf(id) \notin InputIds
          /\ ParentOf(id) # Foreign

\* C8: each list of the output is sorted non-decreasing by created_utc, and
\* two comments of equal created_utc are in the order of the input stream.
C8_SortedAndStable ==
    pc = "done" =>
        \A p \in DOMAIN result : \A a, b \in 1..Len(result[p]) :
            a < b =>
                /\ result[p][a].created_utc <= result[p][b].created_utc
                /\ result[p][a].created_utc = result[p][b].created_utc
                      => StreamIndex(result[p][a].id) < StreamIndex(result[p][b].id)

\* A returned list with two comments of equal created_utc after a comment
\* that came later in the stream.
C8_Witness ==
    /\ Returned
    /\ \E p \in DOMAIN result : \E a, b, c \in 1..Len(result[p]) :
          /\ a < b
          /\ b < c
          /\ result[p][b].created_utc = result[p][c].created_utc
          /\ StreamIndex(result[p][a].id) > StreamIndex(result[p][c].id)

\* C9: a second call on the same stream and the same post_ids returns what
\* the first call returned: the same keys, lists and depths.
C9_SecondCallSameOutput ==
    (Returned /\ call = "again") => result = prev_result

\* The second call returned an output with a reply at depth 1 and left a
\* comment on a cycle out.
C9_Witness ==
    /\ Returned
    /\ call = "again"
    /\ \E c \in Output(result) : c.depth = 1
    /\ \E id \in Collected : LeadsToCycle(id)

\* C10: the retained set is closed under parent: the parent of a comment of
\* the output that is not top-level is in the output, in the list of the
\* parent's own post, and the comment's depth is its parent's depth plus 1;
\* a comment gets the verdict "member" through its parent only when the
\* parent, tested on its own, reaches a top-level record too.
C10_ClosedUnderParent ==
    /\ Returned =>
          \A c \in Output(result) :
              StartsWith(c.parent_id, T1) =>
                  \E q \in Output(result) :
                      /\ q.id = StripPrefix(c.parent_id)
                      /\ c.depth = q.depth + 1
                      /\ \E k \in 1..Len(result[q.post_id]) :
                            result[q.post_id][k] = q
    /\ (pc = "select" /\ verdict) =>
          ReachesRoot(ParentOf(all_user_comments[j].id))

\* A returned output with a reply whose parent is in the list of another
\* post.
C10_Witness ==
    /\ Returned
    /\ \E c, q \in Output(result) :
          /\ StartsWith(c.parent_id, T1)
          /\ q.id = StripPrefix(c.parent_id)
          /\ q.post_id # c.post_id
          /\ c.depth = q.depth + 1

====
